---- MODULE Spec2Model ----
(***************************************************************************)
(* A model of tabular-data-mcp (src/main.py): the four tools of the MCP   *)
(* server, the restricted namespace with its guarded import and guarded   *)
(* open, and the capture of output around exec.                           *)
(*                                                                         *)
(* Strings are sequences of one-character strings, so that the prefix     *)
(* test of the path guard, str.lower, str.endswith and str.rstrip are     *)
(* computed character by character, as Python computes them.              *)
(***************************************************************************)
EXTENDS Integers, Sequences, FiniteSets, TLC

VARIABLES
    fs,        \* the filesystem: canonical path -> node
    written,   \* canonical path -> bytes of the last write through the guarded open
    nwrites,   \* how many writes through the guarded open have been made
    last,      \* the last tool call of the file tools and what it returned
    sys_stdout,  \* sys.stdout: "orig", or the request whose buffer it is
    sys_stderr,  \* sys.stderr, likewise
    terminal,    \* what was written to the original streams
    modules,     \* the attributes set on the module objects every namespace shares
    req,         \* the run_python_code calls in progress, by request
    imp          \* the last call of the guarded import and its outcome

fvars == <<fs, written, nwrites, last>>

evars == <<sys_stdout, sys_stderr, terminal, modules, req>>

vars == <<fs, written, nwrites, last, sys_stdout, sys_stderr, terminal, modules, req, imp>>

----------------------------------------------------------------------------
(* Bounds *)

\* the largest number of bytes one sandboxed write puts in a file
MaxBytes == 1

\* how many writes through the guarded open one behaviour makes
MaxWrites == 1

----------------------------------------------------------------------------
(* str methods *)

StartsWith(s, p) == Len(p) <= Len(s) /\ SubSeq(s, 1, Len(p)) = p

EndsWith(s, p) == Len(p) <= Len(s) /\ SubSeq(s, Len(s) - Len(p) + 1, Len(s)) = p

UpperLetters ==
    <<"A","B","C","D","E","F","G","H","I","J","K","L","M",
      "N","O","P","Q","R","S","T","U","V","W","X","Y","Z">>

LowerLetters ==
    <<"a","b","c","d","e","f","g","h","i","j","k","l","m",
      "n","o","p","q","r","s","t","u","v","w","x","y","z">>

LowerChar(c) ==
    IF \E i \in 1..26 : UpperLetters[i] = c
    THEN LowerLetters[CHOOSE i \in 1..26 : UpperLetters[i] = c]
    ELSE c

\* str.lower()
Lower(s) == [i \in 1..Len(s) |-> LowerChar(s[i])]

\* s.split("/")
RECURSIVE SplitAcc(_, _, _)
SplitAcc(s, cur, acc) ==
    IF s = <<>> THEN Append(acc, cur)
    ELSE IF Head(s) = "/" THEN SplitAcc(Tail(s), <<>>, Append(acc, cur))
    ELSE SplitAcc(Tail(s), Append(cur, Head(s)), acc)

Split(s) == SplitAcc(s, <<>>, <<>>)

\* "/".join(comps)
RECURSIVE JoinSlash(_)
JoinSlash(comps) ==
    IF comps = <<>> THEN <<>>
    ELSE IF Len(comps) = 1 THEN comps[1]
    ELSE comps[1] \o <<"/">> \o JoinSlash(Tail(comps))

----------------------------------------------------------------------------
(* os.path *)

Dot == <<".">>

DotDot == <<".", ".">>

\* The process's working directory, /w: the directory ./data is relative to.
Cwd == <<"/", "w">>

DATA_DIRECTORY == <<".", "/", "d", "a", "t", "a">>

\* os.path.join(a, b)
PathJoin(a, b) ==
    IF StartsWith(b, <<"/">>) THEN b
    ELSE IF a = <<>> \/ EndsWith(a, <<"/">>) THEN a \o b
    ELSE a \o <<"/">> \o b

\* the loop of posixpath.normpath over the components of an absolute path
RECURSIVE NormComps(_, _)
NormComps(comps, acc) ==
    IF comps = <<>> THEN acc
    ELSE LET c == Head(comps) IN
         IF c = <<>> \/ c = Dot THEN NormComps(Tail(comps), acc)
         ELSE IF c = DotDot
              THEN NormComps(Tail(comps),
                             IF acc = <<>> THEN acc ELSE SubSeq(acc, 1, Len(acc) - 1))
              ELSE NormComps(Tail(comps), Append(acc, c))

\* os.path.abspath(path): join with the working directory, then normpath.
\* POSIX keeps exactly two leading slashes and folds three or more into one.
AbsPath(path) ==
    LET p     == IF StartsWith(path, <<"/">>) THEN path ELSE PathJoin(Cwd, path)
        lead  == IF StartsWith(p, <<"/", "/">>) /\ ~StartsWith(p, <<"/", "/", "/">>)
                 THEN <<"/", "/">> ELSE <<"/">>
    IN  lead \o JoinSlash(NormComps(Split(p), <<>>))

\* os.path.basename(path)
BaseName(path) == LET c == Split(path) IN c[Len(c)]

----------------------------------------------------------------------------
(* The file names the tools are called with *)

\* "a.csv": an existing file in the root
F_sales == <<"a", ".", "c", "s", "v">>

\* "b.xlsx": a new workbook in the root
F_book == <<"b", ".", "x", "l", "s", "x">>

\* "sub/a.csv": a file in a directory of the root
F_sub == <<"s", "u", "b", "/", "a", ".", "c", "s", "v">>

\* "../data2/c.csv": a sibling directory whose name starts with the root's
F_sibling == <<".", ".", "/", "d", "a", "t", "a", "2", "/", "c", ".", "c", "s", "v">>

\* "../ext/o.xlsx": an existing workbook outside the root
F_outside == <<".", ".", "/", "e", "x", "t", "/", "o", ".", "x", "l", "s", "x">>

\* "../../etc/passwd": the traversal of the spec's example
F_passwd == <<".", ".", "/", ".", ".", "/", "e", "t", "c", "/", "p", "a", "s", "s", "w", "d">>

\* "lk/o.xlsx": through a symbolic link of the root that leaves it
F_link == <<"l", "k", "/", "o", ".", "x", "l", "s", "x">>

\* "/w/ext/o.xlsx": an absolute path
F_abs == <<"/", "w", "/", "e", "x", "t", "/", "o", ".", "x", "l", "s", "x">>

\* ".h.csv": a name glob treats as hidden
F_hidden == <<".", "h", ".", "c", "s", "v">>

\* "B.XLS": an upper-case extension
F_upper == <<"B", ".", "X", "L", "S">>

\* "dg.csv": a symbolic link of the root to a missing file
F_dangling == <<"d", "g", ".", "c", "s", "v">>

Filenames ==
    {F_sales, F_book, F_sub, F_sibling,
     F_outside, F_passwd, F_link, F_abs,
     F_hidden, F_upper, F_dangling}

OpenModes == {"r", "w"}

----------------------------------------------------------------------------
(* The filesystem.  A canonical path is the sequence of its components from *)
(* "/"; a node is a directory, a regular file of `size` bytes, or a symbolic *)
(* link whose target is a canonical path.                                    *)

DirNode == [kind |-> "dir", size |-> 0, target |-> <<>>]

FileNode(n) == [kind |-> "file", size |-> n, target |-> <<>>]

LinkNode(t) == [kind |-> "link", size |-> 0, target |-> t]

Parent(p) == IF p = <<>> THEN p ELSE SubSeq(p, 1, Len(p) - 1)

IsDir(f, p) == p = <<>> \/ (p \in DOMAIN f /\ f[p].kind = "dir")

\* The kernel's walk of a path, component by component, following symbolic
\* links.  strict: a component that is followed must be a directory (open,
\* stat); otherwise the walk goes on lexically, as os.path.realpath does.
RECURSIVE Resolve(_, _, _, _)
Resolve(f, cur, comps, strict) ==
    IF comps = <<>> THEN [err |-> FALSE, path |-> cur]
    ELSE IF strict /\ ~IsDir(f, cur) THEN [err |-> TRUE, path |-> cur]
    ELSE LET c == Head(comps) IN
         IF c = <<>> \/ c = Dot THEN Resolve(f, cur, Tail(comps), strict)
         ELSE IF c = DotDot THEN Resolve(f, Parent(cur), Tail(comps), strict)
         ELSE LET nxt == Append(cur, c)
                  tgt == IF nxt \in DOMAIN f /\ f[nxt].kind = "link"
                         THEN f[nxt].target ELSE nxt
              IN  Resolve(f, tgt, Tail(comps), strict)

CwdPath == NormComps(Split(Cwd), <<>>)

\* The paths the calls are made with and their components, computed once.
KnownPaths == {PathJoin(DATA_DIRECTORY, fn) : fn \in Filenames} \cup {DATA_DIRECTORY}

SplitTable == [p \in KnownPaths |-> Split(p)]

Components(path) == IF path \in KnownPaths THEN SplitTable[path] ELSE Split(path)

OsResolve(f, path, strict) ==
    Resolve(f, IF StartsWith(path, <<"/">>) THEN <<>> ELSE CwdPath, Components(path), strict)

\* os.path.exists(path): stat succeeds
PathExists(f, path) ==
    LET r == OsResolve(f, path, TRUE)
    IN  ~r.err /\ (r.path = <<>> \/ r.path \in DOMAIN f)

----------------------------------------------------------------------------
(* create_safe_namespace: the guarded open *)

OpenResult(status, path) == [status |-> status, path |-> path]

\* The builtin open(file_path, mode): the canonical path of the file it
\* opens, or the OSError it raises.  Mode "w" creates a missing file in an
\* existing directory.  Link targets are never links themselves.
BuiltinOpen(f, path, mode) ==
    LET r == OsResolve(f, path, TRUE) IN
    IF r.err THEN OpenResult("FileNotFoundError", <<>>)
    ELSE IF IsDir(f, r.path) THEN OpenResult("IsADirectoryError", <<>>)
    ELSE IF r.path \in DOMAIN f THEN OpenResult("ok", r.path)
    ELSE IF mode = "w" /\ IsDir(f, Parent(r.path)) THEN OpenResult("ok", r.path)
    ELSE OpenResult("FileNotFoundError", <<>>)

\* abs_path.startswith(data_abs)
GuardAccepts(filename) ==
    StartsWith(AbsPath(PathJoin(DATA_DIRECTORY, filename)), AbsPath(DATA_DIRECTORY))

\* The guard's decision for each file name, computed once.
GuardTable == [fn \in Filenames |-> GuardAccepts(fn)]

safe_open(f, filename, mode) ==
    IF ~GuardTable[filename] THEN OpenResult("PermissionError", <<>>)
    ELSE BuiltinOpen(f, PathJoin(DATA_DIRECTORY, filename), mode)

----------------------------------------------------------------------------
(* ensure_data_directory, list_data_files, list_sheets *)

\* os.makedirs(path): the directory and its missing ancestors
MakeDirs(f, path) ==
    LET p   == OsResolve(f, path, FALSE).path
        new == {SubSeq(p, 1, k) : k \in 1..Len(p)} \ DOMAIN f
    IN  [q \in DOMAIN f \cup new |-> IF q \in DOMAIN f THEN f[q] ELSE DirNode]

ensure_data_directory(f) ==
    IF ~PathExists(f, DATA_DIRECTORY) THEN MakeDirs(f, DATA_DIRECTORY) ELSE f

Children(f, d) == {p \in DOMAIN f : Len(p) = Len(d) + 1 /\ SubSeq(p, 1, Len(d)) = d}

\* glob skips the names that start with a dot unless the pattern does
IsHidden(name) == StartsWith(name, <<".">>)

\* fnmatch of a name against "*" + ext
GlobMatch(name, ext) == ~IsHidden(name) /\ EndsWith(name, ext)

\* glob.glob(os.path.join(DATA_DIRECTORY, "*" + ext)): the paths found
Glob(f, ext) ==
    LET r == OsResolve(f, DATA_DIRECTORY, TRUE) IN
    IF r.err \/ ~IsDir(f, r.path) THEN {}
    ELSE {PathJoin(DATA_DIRECTORY, p[Len(p)]) :
             p \in {q \in Children(f, r.path) : GlobMatch(q[Len(q)], ext)}}

\* The order in which glob returns the entries of a directory is the
\* directory's own; one fixed order stands for it.
RECURSIVE SetToSeq(_)
SetToSeq(S) ==
    IF S = {} THEN <<>>
    ELSE LET x == CHOOSE y \in S : TRUE IN <<x>> \o SetToSeq(S \ {x})

\* os.path.getsize(path): stat follows links and fails on a missing file
StatFails(f, path) ==
    LET r == OsResolve(f, path, TRUE) IN r.err \/ ~(r.path = <<>> \/ r.path \in DOMAIN f)

\* a slip: the size of the directory entry itself (lstat), links not followed
GetSize_OfEntry(f, path) ==
    LET p == NormComps(Split(PathJoin(Cwd, path)), <<>>)
    IN  IF p \in DOMAIN f THEN f[p].size ELSE 0

GetSize(f, path) ==
    LET r == OsResolve(f, path, TRUE)
    IN  IF r.path = <<>> THEN 0 ELSE f[r.path].size

Ext_csv == <<".", "c", "s", "v">>

Ext_xlsx == <<".", "x", "l", "s", "x">>

Ext_xls == <<".", "x", "l", "s">>

CsvFiles(f) == SetToSeq(Glob(f, Ext_csv))

ExcelFiles(f) == SetToSeq(Glob(f, Ext_xlsx)) \o SetToSeq(Glob(f, Ext_xls))

ListEntry(f, path, kind) == [name |-> BaseName(path), kind |-> kind, size |-> GetSize(f, path)]

\* list_data_files on filesystem f: the filesystem it leaves, whether it
\* returned or raised, and the text: the empty-state message, or the header
\* line followed by one line per entry.
list_data_files(f) ==
    LET f1    == ensure_data_directory(f)
        csv   == CsvFiles(f1)
        excel == ExcelFiles(f1)
        all   == csv \o excel
    IN  IF \E i \in 1..Len(all) : StatFails(f1, all[i])
        THEN [fs |-> f1, outcome |-> "raised", head |-> "FileNotFoundError", lines |-> <<>>]
        ELSE LET lines == [i \in 1..Len(csv) |-> ListEntry(f1, csv[i], "CSV")]
                          \o [i \in 1..Len(excel) |-> ListEntry(f1, excel[i], "Excel")]
             IN  [fs |-> f1, outcome |-> "returned",
                  head |-> IF lines = <<>> THEN "No CSV or Excel files found"
                           ELSE "Available data files:",
                  lines |-> lines]

\* filename.lower().endswith((".xlsx", ".xls"))
IsExcelName(filename) ==
    EndsWith(Lower(filename), Ext_xlsx) \/ EndsWith(Lower(filename), Ext_xls)

\* list_sheets(filename) on filesystem f; parses: whether pandas can read
\* the workbook.  status is the kind of text returned, path the file opened.
list_sheets(f, filename, parses) ==
    LET file_path == PathJoin(DATA_DIRECTORY, filename) IN
    IF ~PathExists(f, file_path) THEN OpenResult("not found", <<>>)
    ELSE IF ~IsExcelName(filename) THEN OpenResult("not an Excel file", <<>>)
    ELSE LET p == OsResolve(f, file_path, TRUE).path IN
         IF ~IsDir(f, p) /\ parses THEN OpenResult("Sheets in", p)
         ELSE OpenResult("Error reading Excel file", IF IsDir(f, p) THEN <<>> ELSE p)

----------------------------------------------------------------------------
(* The file tools' specification: the filesystems the server may start on, *)
(* the file names the calls are made with, and one action per tool call.   *)

P_w == <<<<"w">>>>

P_data2 == <<<<"w">>, <<"d", "a", "t", "a", "2">>>>

P_ext == <<<<"w">>, <<"e", "x", "t">>>>

P_outside == <<<<"w">>, <<"e", "x", "t">>, <<"o", ".", "x", "l", "s", "x">>>>

P_root == <<<<"w">>, <<"d", "a", "t", "a">>>>

P_sales == <<<<"w">>, <<"d", "a", "t", "a">>, <<"a", ".", "c", "s", "v">>>>

P_sub == <<<<"w">>, <<"d", "a", "t", "a">>, <<"s", "u", "b">>>>

P_lk == <<<<"w">>, <<"d", "a", "t", "a">>, <<"l", "k">>>>

P_dg == <<<<"w">>, <<"d", "a", "t", "a">>, <<"d", "g", ".", "c", "s", "v">>>>

P_gone == <<<<"w">>, <<"e", "x", "t">>, <<"g", "o", "n", "e">>>>

\* no ./data yet
FsNoRoot ==
    (P_w :> DirNode) @@ (P_data2 :> DirNode) @@ (P_ext :> DirNode)
    @@ (P_outside :> FileNode(1))

\* an empty ./data
FsEmptyRoot == (P_root :> DirNode) @@ FsNoRoot

\* ./data with a CSV file, a sub-directory and a link to a directory outside
FsPopulated ==
    (P_sales :> FileNode(1)) @@ (P_sub :> DirNode) @@ (P_lk :> LinkNode(P_ext))
    @@ FsEmptyRoot

\* the same, and a dangling link named dg.csv
FsDangling == (P_dg :> LinkNode(P_gone)) @@ FsPopulated

InitialFilesystems == {FsNoRoot, FsEmptyRoot, FsPopulated, FsDangling}

NoCall ==
    [op |-> "none", filename |-> <<>>, mode |-> "", status |-> "", path |-> <<>>,
     outcome |-> "", lines |-> <<>>]

NoWrites == [fn \in {} |-> [path |-> <<>>, bytes |-> 0]]

\* The writes through the guarded open that are still the last change of
\* their file, after filename wrote n bytes to the file at path.
RecordWrite(w, filename, path, n) ==
    LET keep == {fn \in DOMAIN w : w[fn].path # path} \cup {filename}
    IN  [fn \in keep |-> IF fn = filename THEN [path |-> path, bytes |-> n] ELSE w[fn]]

\* run_python_code on code that opens filename through the guarded open
\* and, in mode "w", writes n bytes and closes the file.  An exception of
\* the code is caught and returned as text (except Exception).
RunOpen(filename, mode, n) ==
    LET o   == safe_open(fs, filename, mode)
        wrt == o.status = "ok" /\ mode = "w"
    IN  /\ mode = "w" => nwrites < MaxWrites
        /\ mode = "r" => n = 0
        /\ nwrites' = IF mode = "w" THEN nwrites + 1 ELSE nwrites
        /\ fs' = IF wrt THEN (o.path :> FileNode(n)) @@ fs ELSE fs
        /\ written' = IF wrt THEN RecordWrite(written, filename, o.path, n) ELSE written
        /\ last' = [op |-> "open", filename |-> filename, mode |-> mode,
                    status |-> o.status, path |-> o.path,
                    outcome |-> "returned", lines |-> <<>>]

ListDataFiles ==
    LET r == list_data_files(fs)
    IN  /\ fs' = r.fs
        /\ last' = [op |-> "list", filename |-> <<>>, mode |-> "", status |-> r.head,
                    path |-> <<>>, outcome |-> r.outcome, lines |-> r.lines]
        /\ UNCHANGED <<written, nwrites>>

ListSheets(filename, parses) ==
    LET r == list_sheets(fs, filename, parses)
    IN  /\ last' = [op |-> "sheets", filename |-> filename, mode |-> "",
                    status |-> r.status, path |-> r.path,
                    outcome |-> "returned", lines |-> <<>>]
        /\ UNCHANGED <<fs, written, nwrites>>

----------------------------------------------------------------------------
(* What the claims about the file tools speak of *)

\* the canonical absolute path of a path: every link followed (realpath)
CanonicalPath(f, path) == OsResolve(f, path, FALSE).path

\* canonical path p is the root directory or lies under it
InsideRoot(f, p) ==
    LET r == CanonicalPath(f, DATA_DIRECTORY)
    IN  Len(r) <= Len(p) /\ SubSeq(p, 1, Len(r)) = r

PathOf(filename) == PathJoin(DATA_DIRECTORY, filename)

\* C1: the guarded open permits a file name if and only if the canonical
\* absolute path of the file lies inside the data root; a path that leaves
\* the root is denied with PermissionError and opens nothing, and an
\* existing file inside the root is opened.
C1_GuardedOpenConfined ==
    last.op = "open" =>
        LET c == CanonicalPath(fs, PathOf(last.filename)) IN
        /\ (last.status # "PermissionError") <=> InsideRoot(fs, c)
        /\ last.status = "ok" => InsideRoot(fs, last.path)
        /\ (InsideRoot(fs, c) /\ c \in DOMAIN fs /\ fs[c].kind = "file")
              => last.status = "ok"

\* a file of that name is present in the data root
PresentInRoot(f, filename) ==
    /\ PathExists(f, PathOf(filename))
    /\ InsideRoot(f, CanonicalPath(f, PathOf(filename)))

\* C8: list_sheets answers not-found when no file of that name is present
\* in the data root (a name such as ../ext/o.xlsx of a file outside the root
\* included), wrong-type when the file is present and its name does not end
\* in .xlsx or .xls whatever the case, and otherwise the sheet listing or
\* the parse error; it opens the file only in that last case.
C8_ListSheetsClassifies ==
    last.op = "sheets" =>
        LET present == PresentInRoot(fs, last.filename)
            excel   == IsExcelName(last.filename)
        IN  /\ ~present => last.status = "not found"
            /\ (present /\ ~excel) => last.status = "not an Excel file"
            /\ (present /\ excel)
                  => last.status \in {"Sheets in", "Error reading Excel file"}
            /\ last.path # <<>>
                  => /\ last.status \in {"Sheets in", "Error reading Excel file"}
                     /\ present /\ excel

\* a name with one of the extensions list_data_files recognises
IsTabularName(name) ==
    EndsWith(name, Ext_csv) \/ EndsWith(name, Ext_xlsx) \/ EndsWith(name, Ext_xls)

KindOfName(name) == IF EndsWith(name, Ext_csv) THEN "CSV" ELSE "Excel"

\* the listing of the last call shows name exactly once, with its kind and
\* with n bytes
ListedOnce(name, n) ==
    LET hits == {i \in 1..Len(last.lines) : last.lines[i].name = name}
    IN  /\ Cardinality(hits) = 1
        /\ \A i \in hits : last.lines[i] = [name |-> name, kind |-> KindOfName(name), size |-> n]

IsPlainName(filename) ==
    /\ filename # <<>>
    /\ \A i \in 1..Len(filename) : filename[i] # "/"
    /\ ~IsHidden(filename)

C10_RootCreatedBeforeUse ==
    (last.op \in {"list", "sheets"} \/ (last.op = "open" /\ last.mode = "w")) =>
        /\ PathExists(fs, DATA_DIRECTORY)
        /\ (last.op = "open" /\ last.mode = "w" /\ last.filename = F_sales)
              => last.status = "ok"

----------------------------------------------------------------------------
(* run_python_code: texts.  A text is a sequence of pieces; a piece is one *)
(* character of output or one whole message of the program, which neither  *)
(* is blank nor ends in a blank.                                           *)

Whitespace == {" ", "\n", "\t", "\r"}

\* str.rstrip()
RECURSIVE RStrip(_)
RStrip(t) ==
    IF t # <<>> /\ t[Len(t)] \in Whitespace THEN RStrip(SubSeq(t, 1, Len(t) - 1)) ELSE t

\* "\n".join(parts)
RECURSIVE JoinNewline(_)
JoinNewline(parts) ==
    IF parts = <<>> THEN <<>>
    ELSE IF Len(parts) = 1 THEN parts[1]
    ELSE parts[1] \o <<"\n">> \o JoinNewline(Tail(parts))

\* io.StringIO.getvalue(): the writes one after another
RECURSIVE GetValue(_)
GetValue(buf) == IF buf = <<>> THEN <<>> ELSE Head(buf).text \o GetValue(Tail(buf))

NoOutputMsg == "Code executed successfully in restricted environment (no output produced)"

ErrorsHeader == "RestrictedPython compilation errors:"

WarningsHeader == "WARNING - RestrictedPython detected potentially unsafe patterns:"

FailureHeader == "Error executing Python code in restricted environment:"

\* the loop that adds f"- {item}\n" for each item
RECURSIVE ItemLines(_)
ItemLines(items) ==
    IF items = <<>> THEN <<>>
    ELSE <<"- ", Head(items), "\n">> \o ItemLines(Tail(items))

ErrorText(errors) == <<ErrorsHeader, "\n">> \o ItemLines(errors)

WarningsText(warnings) ==
    IF warnings = <<>> THEN <<>>
    ELSE <<WarningsHeader, "\n">> \o ItemLines(warnings) \o <<"\n">>

\* a slip: warnings block execution as errors do
CompileFails_OnWarnings(cu) == cu.errors # <<>> \/ cu.warnings # <<>>

\* if compiled_code.errors: return the error list
CompileFails(cu) == cu.errors # <<>>

\* The text returned after exec: the parts in order, joined by newlines.
FormatOutput(warnings_text, print_output, stdout_output, stderr_output) ==
    LET p1 == IF warnings_text # <<>> THEN <<RStrip(warnings_text)>> ELSE <<>>
        p2 == IF print_output # <<>> THEN Append(p1, RStrip(print_output)) ELSE p1
        p3 == IF stdout_output # <<>> THEN Append(p2, RStrip(stdout_output)) ELSE p2
        p4 == IF stderr_output # <<>>
              THEN Append(p3, <<"stderr: ">> \o RStrip(stderr_output)) ELSE p3
    IN  IF print_output = <<>> /\ stdout_output = <<>> /\ stderr_output = <<>>
        THEN IF warnings_text # <<>> THEN JoinNewline(Append(p4, <<NoOutputMsg>>))
             ELSE <<NoOutputMsg>>
        ELSE JoinNewline(p4)

\* except Exception: the classes it catches, and those it lets through
ExceptionClasses == {"NameError", "AttributeError", "ValueError"}

BaseExceptionOnly == {"SystemExit", "KeyboardInterrupt"}

FailureText(exc) == <<FailureHeader, "\n", "Traceback (most recent call last): " \o exc>>

----------------------------------------------------------------------------
(* run_python_code: the submitted code.  compile_restricted_exec gives its *)
(* errors and warnings; prog is what the compiled code does when run.      *)

Requests == {"A", "B"}

Instr(op, name, text) == [op |-> op, name |-> name, text |-> text]

Code(errors, warnings, prog) == [errors |-> errors, warnings |-> warnings, prog |-> prog]

\* ""
C_empty == Code(<<>>, <<>>, <<>>)

\* print(1+1)
C_print == Code(<<>>, <<>>, <<Instr("print", "", <<"2">>)>>)

\* print(" ")
C_blank == Code(<<>>, <<>>, <<Instr("print", "", <<" ">>)>>)

\* x = 1; print(x)
C_define == Code(<<>>, <<>>, <<Instr("assign", "x", <<>>), Instr("read", "x", <<>>)>>)

\* print(x)
C_read == Code(<<>>, <<>>, <<Instr("read", "x", <<>>)>>)

\* pd.flag = 1
C_plant == Code(<<>>, <<>>, <<Instr("setattr", "pd", <<>>)>>)

\* print(pd.flag)
C_probe == Code(<<>>, <<>>, <<Instr("getattr", "pd", <<>>)>>)

\* a library call that writes a line to sys.stdout, such as df.info()
C_info == Code(<<>>, <<>>, <<Instr("stdout", "", <<"i", "\n">>)>>)

\* a library call that writes a lone newline to sys.stdout
C_newline == Code(<<>>, <<>>, <<Instr("stdout", "", <<"\n">>)>>)

\* a library call that writes a warning to sys.stderr
C_stderr == Code(<<>>, <<>>, <<Instr("stderr", "", <<"w", "\n">>)>>)

\* raise SystemExit
C_exit == Code(<<>>, <<>>, <<Instr("raise", "SystemExit", <<>>)>>)

\* raise ValueError
C_fail == Code(<<>>, <<>>, <<Instr("raise", "ValueError", <<>>)>>)

\* code with two compile errors and a warning, which would write if run
C_invalid ==
    Code(<<"Line 1: first error", "Line 2: second error">>, <<"Line 1: a warning">>,
         <<Instr("stdout", "", <<"i", "\n">>)>>)

\* code with a warning and no error
C_warned == Code(<<>>, <<"Line 1: a warning">>, <<>>)

Submissions ==
    {C_empty, C_print, C_blank, C_define, C_read, C_plant, C_probe, C_info,
     C_newline, C_stderr, C_exit, C_fail, C_invalid, C_warned}

----------------------------------------------------------------------------
(* run_python_code: one call, step by step.  Calls of different requests   *)
(* interleave between steps.                                               *)

\* The namespace of create_safe_namespace: a new mapping whose names are
\* bound to the module objects of the process.
create_safe_namespace == ("pd" :> "module pandas")

IdleRequest ==
    [pc |-> "idle", code |-> C_empty, built |-> FALSE, namespace |-> <<>>,
     collected |-> <<>>, stdout_buffer |-> <<>>, stderr_buffer |-> <<>>,
     old_stdout |-> "", old_stderr |-> "", ip |-> 0, seen |-> {}, exc |-> "",
     outcome |-> "", result |-> <<>>]

InitExec ==
    /\ sys_stdout = "orig"
    /\ sys_stderr = "orig"
    /\ terminal = <<>>
    /\ modules = <<>>
    /\ req = [r \in Requests |-> IdleRequest]

\* compile_restricted_exec and the check of its errors; with no error, the
\* namespace, the print collector and the two buffers of this call
Compile(r, code) ==
    /\ req[r].pc = "idle"
    /\ req' = [req EXCEPT ![r] =
                  IF CompileFails(code)
                  THEN [@ EXCEPT !.pc = "done", !.code = code, !.outcome = "returned",
                                 !.result = ErrorText(code.errors)]
                  ELSE [@ EXCEPT !.pc = "enter stdout", !.code = code, !.built = TRUE,
                                 !.namespace = create_safe_namespace]]
    /\ UNCHANGED <<sys_stdout, sys_stderr, terminal, modules>>

\* redirect_stdout(stdout_buffer).__enter__
EnterStdout(r) ==
    /\ req[r].pc = "enter stdout"
    /\ req' = [req EXCEPT ![r].pc = "enter stderr", ![r].old_stdout = sys_stdout]
    /\ sys_stdout' = r
    /\ UNCHANGED <<sys_stderr, terminal, modules>>

\* redirect_stderr(stderr_buffer).__enter__
EnterStderr(r) ==
    /\ req[r].pc = "enter stderr"
    /\ req' = [req EXCEPT ![r].pc = "exec", ![r].old_stderr = sys_stderr]
    /\ sys_stderr' = r
    /\ UNCHANGED <<sys_stdout, terminal, modules>>

Running(r, op) ==
    /\ req[r].pc = "exec"
    /\ req[r].ip < Len(req[r].code.prog)
    /\ req[r].code.prog[req[r].ip + 1].op = op

Current(r) == req[r].code.prog[req[r].ip + 1]

\* name = value: the value planted is the request's own mark
ExecAssign(r) ==
    /\ Running(r, "assign")
    /\ req' = [req EXCEPT ![r].ip = @ + 1,
                          ![r].namespace = (Current(r).name :> r) @@ @]
    /\ UNCHANGED <<sys_stdout, sys_stderr, terminal, modules>>

\* print(name): NameError when the namespace has no such name
ExecRead(r) ==
    /\ Running(r, "read")
    /\ req' = [req EXCEPT ![r] =
                  IF Current(r).name \in DOMAIN @.namespace
                  THEN [@ EXCEPT !.ip = @ + 1,
                                 !.seen = @ \cup {req[r].namespace[Current(r).name]},
                                 !.collected = Append(@, <<req[r].namespace[Current(r).name]>>)]
                  ELSE [@ EXCEPT !.pc = "exit stderr", !.exc = "NameError"]]
    /\ UNCHANGED <<sys_stdout, sys_stderr, terminal, modules>>

\* name.flag = value, through _write_, which returns the object itself
ExecSetAttr(r) ==
    /\ Running(r, "setattr")
    /\ modules' = (req[r].namespace[Current(r).name] :> r) @@ modules
    /\ req' = [req EXCEPT ![r].ip = @ + 1]
    /\ UNCHANGED <<sys_stdout, sys_stderr, terminal>>

\* print(name.flag), through _getattr_, which is getattr
ExecGetAttr(r) ==
    /\ Running(r, "getattr")
    /\ LET obj == req[r].namespace[Current(r).name] IN
       req' = [req EXCEPT ![r] =
                  IF obj \in DOMAIN modules
                  THEN [@ EXCEPT !.ip = @ + 1, !.seen = @ \cup {modules[obj]},
                                 !.collected = Append(@, <<modules[obj]>>)]
                  ELSE [@ EXCEPT !.pc = "exit stderr", !.exc = "AttributeError"]]
    /\ UNCHANGED <<sys_stdout, sys_stderr, terminal, modules>>

\* print(text): _print_ is the collector of this call
ExecPrint(r) ==
    /\ Running(r, "print")
    /\ req' = [req EXCEPT ![r].ip = @ + 1, ![r].collected = Append(@, Current(r).text)]
    /\ UNCHANGED <<sys_stdout, sys_stderr, terminal, modules>>

Written(r) == [by |-> r, text |-> Current(r).text]

\* a write to sys.stdout: to whatever sys.stdout is at this moment
ExecStdout(r) ==
    /\ Running(r, "stdout")
    /\ IF sys_stdout = "orig"
       THEN /\ terminal' = Append(terminal, Written(r))
            /\ req' = [req EXCEPT ![r].ip = @ + 1]
       ELSE /\ req' = [req EXCEPT ![r].ip = @ + 1,
                                  ![sys_stdout].stdout_buffer = Append(@, Written(r))]
            /\ UNCHANGED terminal
    /\ UNCHANGED <<sys_stdout, sys_stderr, modules>>

\* a write to sys.stderr
ExecStderr(r) ==
    /\ Running(r, "stderr")
    /\ IF sys_stderr = "orig"
       THEN /\ terminal' = Append(terminal, Written(r))
            /\ req' = [req EXCEPT ![r].ip = @ + 1]
       ELSE /\ req' = [req EXCEPT ![r].ip = @ + 1,
                                  ![sys_stderr].stderr_buffer = Append(@, Written(r))]
            /\ UNCHANGED terminal
    /\ UNCHANGED <<sys_stdout, sys_stderr, modules>>

\* raise name
ExecRaise(r) ==
    /\ Running(r, "raise")
    /\ req' = [req EXCEPT ![r].pc = "exit stderr", ![r].exc = Current(r).name]
    /\ UNCHANGED <<sys_stdout, sys_stderr, terminal, modules>>

\* the code ran to its end
ExecEnd(r) ==
    /\ req[r].pc = "exec"
    /\ req[r].ip = Len(req[r].code.prog)
    /\ req' = [req EXCEPT ![r].pc = "exit stderr"]
    /\ UNCHANGED <<sys_stdout, sys_stderr, terminal, modules>>

\* redirect_stderr.__exit__: sys.stderr is set back to what __enter__ saw
ExitStderr(r) ==
    /\ req[r].pc = "exit stderr"
    /\ sys_stderr' = req[r].old_stderr
    /\ req' = [req EXCEPT ![r].pc = "exit stdout"]
    /\ UNCHANGED <<sys_stdout, terminal, modules>>

\* redirect_stdout.__exit__
ExitStdout(r) ==
    /\ req[r].pc = "exit stdout"
    /\ sys_stdout' = req[r].old_stdout
    /\ req' = [req EXCEPT ![r].pc = "finish"]
    /\ UNCHANGED <<sys_stderr, terminal, modules>>

\* print_output: the collected prints joined by newlines
PrintOutput(collected) == IF collected # <<>> THEN JoinNewline(collected) ELSE <<>>

\* After the with block: the result is put together, or the exception is
\* caught by except Exception and reported, or it leaves run_python_code.
Finish(r) ==
    /\ req[r].pc = "finish"
    /\ req' = [req EXCEPT ![r] =
                  IF @.exc = ""
                  THEN [@ EXCEPT !.pc = "done", !.outcome = "returned",
                                 !.result = FormatOutput(WarningsText(req[r].code.warnings),
                                                         PrintOutput(req[r].collected),
                                                         GetValue(req[r].stdout_buffer),
                                                         GetValue(req[r].stderr_buffer))]
                  ELSE IF @.exc \in ExceptionClasses
                  THEN [@ EXCEPT !.pc = "done", !.outcome = "returned",
                                 !.result = FailureText(req[r].exc)]
                  ELSE [@ EXCEPT !.pc = "done", !.outcome = "raised"]]
    /\ UNCHANGED <<sys_stdout, sys_stderr, terminal, modules>>

----------------------------------------------------------------------------
(* What the claims about run_python_code speak of *)

Range(t) == {t[i] : i \in 1..Len(t)}

IsBlank(t) == \A i \in 1..Len(t) : t[i] \in Whitespace

\* sub occurs in t
Contains(t, sub) ==
    \E k \in 0..(Len(t) - Len(sub)) : SubSeq(t, k + 1, k + Len(sub)) = sub

Finished(r) == req[r].pc = "done"

\* C2: nothing done by one request is observable by another: a name one
\* request defines is undefined (NameError) in another, and what a request
\* reads from an object of its namespace was never put there by another.
C2_RequestsIsolated ==
    \A r \in Requests :
        /\ req[r].seen \subseteq {r}
        /\ (Finished(r) /\ req[r].code = C_read) => req[r].exc = "NameError"

\* C3: whatever the interleaving, a buffer holds only what its own call's
\* code wrote, nothing is written past the buffers, and once no call is in
\* progress sys.stdout and sys.stderr are the original streams again.
C3_OutputStaysWithItsCall ==
    /\ \A r \in Requests :
          /\ \A i \in 1..Len(req[r].stdout_buffer) : req[r].stdout_buffer[i].by = r
          /\ \A i \in 1..Len(req[r].stderr_buffer) : req[r].stderr_buffer[i].by = r
    /\ terminal = <<>>
    /\ (\A r \in Requests : req[r].pc \in {"idle", "done"})
          => (sys_stdout = "orig" /\ sys_stderr = "orig")

\* the header, then "- ", the error and a newline for each error in order
ExpectedErrorReport(errors) ==
    [k \in 1..(2 + 3 * Len(errors)) |->
        IF k = 1 THEN "RestrictedPython compilation errors:"
        ELSE IF k = 2 THEN "\n"
        ELSE IF k % 3 = 0 THEN "- "
        ELSE IF k % 3 = 1 THEN errors[(k - 1) \div 3] ELSE "\n"]

\* request r built no namespace, ran nothing and wrote nothing
NeverRan(r) ==
    /\ ~req[r].built /\ req[r].namespace = <<>> /\ req[r].ip = 0
    /\ req[r].collected = <<>> /\ req[r].exc = ""
    /\ req[r].old_stdout = "" /\ req[r].old_stderr = ""
    /\ sys_stdout # r /\ sys_stderr # r
    /\ \A q \in Requests :
          /\ \A i \in 1..Len(req[q].stdout_buffer) : req[q].stdout_buffer[i].by # r
          /\ \A i \in 1..Len(req[q].stderr_buffer) : req[q].stderr_buffer[i].by # r
    /\ \A i \in 1..Len(terminal) : terminal[i].by # r

\* C4: code whose compilation gives errors is never run: the call returns
\* the header and one "- error" line per error in order, builds no
\* namespace and has no effect; code with no error is run, warnings or not.
C4_CompileErrorsBlockExecution ==
    \A r \in Requests :
        req[r].pc # "idle" =>
            /\ req[r].code.errors # <<>>
                  => /\ Finished(r) /\ req[r].outcome = "returned"
                     /\ req[r].result = ExpectedErrorReport(req[r].code.errors)
                     /\ NeverRan(r)
            /\ req[r].code.errors = <<>> => req[r].built

\* one call returned the report of two errors without running, while the
\* other ran code that compiled with a warning
C4_Witness ==
    \E r, q \in Requests :
        /\ r # q
        /\ Finished(r) /\ req[r].code = C_invalid
        /\ req[r].result = ExpectedErrorReport(C_invalid.errors)
        /\ Finished(q) /\ req[q].code = C_warned /\ req[q].built
        /\ NoOutputMsg \in Range(req[q].result)

\* C5: no tool operation raises to its caller.
C5_NoToolRaises ==
    /\ \A r \in Requests : req[r].outcome # "raised"
    /\ last.outcome # "raised"

\* C6: a returned result is never empty or blank; with nothing captured it
\* has the no-output confirmation; with something captured it has that
\* output and not the confirmation.
C6_ResultNeverBlank ==
    /\ \A r \in Requests :
          (Finished(r) /\ req[r].outcome = "returned") =>
              LET captured == \/ req[r].collected # <<>>
                              \/ req[r].stdout_buffer # <<>>
                              \/ req[r].stderr_buffer # <<>>
              IN  /\ ~IsBlank(req[r].result)
                  /\ (req[r].exc = "" /\ req[r].built /\ ~captured)
                        => NoOutputMsg \in Range(req[r].result)
                  /\ (req[r].exc = "" /\ captured)
                        => /\ NoOutputMsg \notin Range(req[r].result)
                           /\ \A i \in 1..Len(req[r].collected) :
                                 Contains(req[r].result, req[r].collected[i])
    /\ (last.op = "list" /\ last.outcome = "returned") => last.status # ""

----------------------------------------------------------------------------
(* create_safe_namespace: the guarded import *)

AllowedModules ==
    {"pandas", "pd", "numpy", "np", "matplotlib", "matplotlib.pyplot",
     "openpyxl", "json", "math", "statistics", "datetime", "re"}

StandardModules == {"json", "math", "statistics", "datetime", "re"}

\* the libraries that may be missing from the environment
OptionalLibraries == {"numpy", "matplotlib"}

ImportResult(status, module, message) ==
    [status |-> status, module |-> module, message |-> message]

NotAllowed(name) ==
    ImportResult("ImportError", "",
                 <<"Module '", name, "' is not allowed in restricted environment">>)

NotAvailable(name) ==
    ImportResult("ImportError", "", <<"Module ", name, " not available">>)

\* safe_import(name, globals, locals, fromlist, level) in an environment
\* where the libraries of `installed` can be imported
safe_import(name, installed) ==
    IF name \in AllowedModules
    THEN IF name = "pandas" THEN ImportResult("module", "pandas", <<>>)
         ELSE IF name = "numpy"
              THEN IF "numpy" \in installed THEN ImportResult("module", "numpy", <<>>)
                   ELSE NotAvailable(name)
         ELSE IF name = "matplotlib.pyplot"
              THEN IF "matplotlib" \in installed
                   THEN ImportResult("module", "matplotlib.pyplot", <<>>)
                   ELSE NotAvailable(name)
         ELSE IF name \in StandardModules THEN ImportResult("module", name, <<>>)
         ELSE NotAllowed(name)
    ELSE NotAllowed(name)

\* module names outside the allow-list
DeniedModules == {"os", "sys", "subprocess", "socket", "csv", "pathlib", ""}

ModuleNames == AllowedModules \cup DeniedModules

Fromlists == {<<>>, <<"x">>}

NoImport ==
    [name |-> "", called |-> FALSE, fromlist |-> <<>>, installed |-> {},
     status |-> "", module |-> "", message |-> <<>>]

\* an import of name by the submitted code
SafeImport(name, fromlist) ==
    LET r == safe_import(name, imp.installed) IN
    imp' = [imp EXCEPT !.name = name, !.called = TRUE, !.fromlist = fromlist,
                       !.status = r.status, !.module = r.module,
                       !.message = r.message]

\* the module an allow-listed name stands for can be imported here
Importable(name, installed) ==
    /\ name \in {"numpy", "np"} => "numpy" \in installed
    /\ name \in {"matplotlib", "matplotlib.pyplot"} => "matplotlib" \in installed

\* C7: the guarded import returns the module for every name of the
\* allow-list, and fails for every other name with the import-denied error
\* that names the module.
C7_ImportFollowsAllowList ==
    imp.called =>
        /\ (imp.name \in AllowedModules /\ Importable(imp.name, imp.installed))
              => imp.status = "module"
        /\ imp.name \notin AllowedModules
              => /\ imp.status = "ImportError"
                 /\ imp.message = <<"Module '", imp.name,
                                    "' is not allowed in restricted environment">>

----------------------------------------------------------------------------
(* Specifications *)

InitFileTools ==
    /\ written = NoWrites
    /\ nwrites = 0
    /\ last = NoCall

\* The file tools, called one after another on a filesystem of
\* InitialFilesystems.
InitFiles ==
    /\ fs \in InitialFilesystems
    /\ InitFileTools
    /\ InitExec
    /\ imp = NoImport

NextFiles ==
    \/ \E filename \in Filenames, mode \in OpenModes, n \in 0..MaxBytes :
          RunOpen(filename, mode, n) /\ UNCHANGED <<evars, imp>>
    \/ ListDataFiles /\ UNCHANGED <<evars, imp>>
    \/ \E filename \in Filenames, parses \in BOOLEAN :
          ListSheets(filename, parses) /\ UNCHANGED <<evars, imp>>

SpecFiles == InitFiles /\ [][NextFiles]_vars

\* run_python_code, called once by each request; the calls run
\* concurrently.
NextExec ==
    \E r \in Requests :
        \/ \E code \in Submissions : Compile(r, code) /\ UNCHANGED <<fvars, imp>>
        \/ EnterStdout(r) /\ UNCHANGED <<fvars, imp>>
        \/ EnterStderr(r) /\ UNCHANGED <<fvars, imp>>
        \/ ExecAssign(r) /\ UNCHANGED <<fvars, imp>>
        \/ ExecRead(r) /\ UNCHANGED <<fvars, imp>>
        \/ ExecSetAttr(r) /\ UNCHANGED <<fvars, imp>>
        \/ ExecGetAttr(r) /\ UNCHANGED <<fvars, imp>>
        \/ ExecPrint(r) /\ UNCHANGED <<fvars, imp>>
        \/ ExecStdout(r) /\ UNCHANGED <<fvars, imp>>
        \/ ExecStderr(r) /\ UNCHANGED <<fvars, imp>>
        \/ ExecRaise(r) /\ UNCHANGED <<fvars, imp>>
        \/ ExecEnd(r) /\ UNCHANGED <<fvars, imp>>
        \/ ExitStderr(r) /\ UNCHANGED <<fvars, imp>>
        \/ ExitStdout(r) /\ UNCHANGED <<fvars, imp>>
        \/ Finish(r) /\ UNCHANGED <<fvars, imp>>

InitCalls ==
    /\ fs = FsPopulated
    /\ InitFileTools
    /\ InitExec
    /\ imp = NoImport

SpecExec == InitCalls /\ [][NextExec]_vars

InitImports ==
    /\ fs = FsPopulated
    /\ InitFileTools
    /\ InitExec
    /\ \E installed \in SUBSET OptionalLibraries :
          imp = [NoImport EXCEPT !.installed = installed]

\* The guarded import, called with each module name in each environment.
NextImport ==
    \E name \in ModuleNames, fromlist \in Fromlists :
        SafeImport(name, fromlist) /\ UNCHANGED <<fvars, evars>>

SpecImport == InitImports /\ [][NextImport]_vars

====
